---------------------------- MODULE Spec2Model ----------------------------
(***************************************************************************)
(* Model of pkg/configmap/configmap.go: resolution of an annotated         *)
(* Kubernetes ConfigMap against the AWS SSM parameter store.               *)
(*                                                                         *)
(* Go strings are modelled as sequences of one-character strings, so that  *)
(* trimming, splitting and replacing are computed character by character.  *)
(* Go maps are modelled as functions; a nil map is the value Nil.          *)
(***************************************************************************)
EXTENDS Integers, Sequences, FiniteSets, TLC

VARIABLES pc,          \* position in the code
          configmap,   \* the v1.ConfigMap handed to FromKubernetesConfigMap
          param_name,  \* locals of FromKubernetesConfigMap
          param_type,
          param_key,
          scanned,     \* annotation keys the range loop has visited
          s,           \* the *ConfigMap under construction, Nil before it
          pending,     \* entries the current range loop has not visited
          ret,         \* the (*ConfigMap, error) pair returned
          calls,       \* history: calls made to the provider, with results
          data0,       \* history: configmap.Data before resolution
          annoKey,     \* history: param_key as scanned, before defaulting
          collided,    \* history: some Set was given a key already in Data
          setKey,      \* arguments and result of the latest direct Set call
          setVal,
          setErr,
          nSet,
          input,       \* argument and result of a function applied alone
          output

vars == <<pc, configmap, param_name, param_type, param_key, scanned,
          s, pending, ret, calls, data0, annoKey, collided,
          setKey, setVal, setErr, nSet, input, output>>

buildVars == <<configmap, param_name, param_type, param_key, scanned,
               pending, ret, calls, data0, annoKey, collided>>

setVars == <<setKey, setVal, setErr, nSet>>

pureVars == <<input, output>>

-----------------------------------------------------------------------------
(* Bounds of the model *)

\* longest raw StringList value explored exhaustively
MaxLen == 4

\* longest Directory sub-path explored exhaustively
MaxKeyLen == 5

\* largest number of annotations an object carries
MaxAnnotations == 3

\* longest sequence of direct Set calls
MaxSetCalls == 3

-----------------------------------------------------------------------------
(* Values *)

Nil == [nil |-> TRUE]

Empty == << >>

EmptyMap == [k \in {} |-> Empty]

MapPut(m, k, v) == [x \in (DOMAIN m) \cup {k} |-> IF x = k THEN v ELSE m[x]]

MapRemove(m, k) == [x \in (DOMAIN m) \ {k} |-> m[x]]

\* a non-nil Go map holding the entries m
MakeMap(m) == [kv |-> m]

\* the entries read from a Go map; reading a nil map finds none
MapOf(d) == IF d = Nil THEN EmptyMap ELSE d.kv

\* the four parameter types the dispatch of NewConfigMap compares against
TypeString == <<"S","t","r","i","n","g">>

TypeSecureString == <<"S","e","c","u","r","e","S","t","r","i","n","g">>

TypeStringList == <<"S","t","r","i","n","g","L","i","s","t">>

TypeDirectory == <<"D","i","r","e","c","t","o","r","y">>

DefaultKey == <<"a","l","i","a","s","/","a","w","s","/","s","s","m">>

TrueMarker == <<"t","r","u","e">>

-----------------------------------------------------------------------------
(* The functions of package strings that configmap.go calls *)

IsSpace(c) == c \in {" ", "\t", "\n", "\r"}

RECURSIVE TrimLeftSpace(_)
TrimLeftSpace(str) ==
    IF str # Empty /\ IsSpace(Head(str)) THEN TrimLeftSpace(Tail(str)) ELSE str

RECURSIVE TrimRightSpace(_)
TrimRightSpace(str) ==
    IF str # Empty /\ IsSpace(str[Len(str)])
    THEN TrimRightSpace(SubSeq(str, 1, Len(str) - 1))
    ELSE str

TrimSpace(str) == TrimRightSpace(TrimLeftSpace(str))

RECURSIVE SplitAcc(_, _, _)
SplitAcc(str, sep, cur) ==
    IF str = Empty THEN <<cur>>
    ELSE IF Head(str) = sep
         THEN <<cur>> \o SplitAcc(Tail(str), sep, Empty)
         ELSE SplitAcc(Tail(str), sep, Append(cur, Head(str)))

Split(str, sep) == SplitAcc(str, sep, Empty)

RECURSIVE IndexFrom(_, _, _)
IndexFrom(str, c, i) ==
    IF i > Len(str) THEN 0
    ELSE IF str[i] = c THEN i ELSE IndexFrom(str, c, i + 1)

Contains(str, c) == IndexFrom(str, c, 1) # 0

SplitN2(str, sep) ==
    LET i == IndexFrom(str, sep, 1)
    IN  IF i = 0 THEN <<str>>
        ELSE <<SubSeq(str, 1, i - 1), SubSeq(str, i + 1, Len(str))>>

RECURSIVE TrimRight(_, _)
TrimRight(str, c) ==
    IF str # Empty /\ str[Len(str)] = c
    THEN TrimRight(SubSeq(str, 1, Len(str) - 1), c)
    ELSE str

HasPrefix(str, c) == str # Empty /\ Head(str) = c

RECURSIVE Replace(_, _, _, _)
Replace(str, old, new, n) ==
    IF str = Empty \/ n = 0 THEN str
    ELSE IF Head(str) = old
         THEN new \o Replace(Tail(str), old, new, n - 1)
         ELSE <<Head(str)>> \o Replace(Tail(str), old, new, n)

-----------------------------------------------------------------------------
(* safeKeyName *)

\* variant that strips every leading slash instead of the first one only
safeKeyNameStripAll(key) ==
    LET k1 == TrimRight(key, "/")
        k2 == IF HasPrefix(k1, "/") THEN Replace(k1, "/", Empty, -1) ELSE k1
    IN  Replace(k2, "/", <<"_">>, -1)

safeKeyName(key) ==
    LET k1 == TrimRight(key, "/")
        k2 == IF HasPrefix(k1, "/") THEN Replace(k1, "/", Empty, 1) ELSE k1
    IN  Replace(k2, "/", <<"_">>, -1)

-----------------------------------------------------------------------------
(* ConfigMap.ParseStringList *)

\* variant that uses the split halves even when the left half is empty
ParsePairNoFallback(rawPair) ==
    LET pair == TrimSpace(rawPair)
        kv   == SplitN2(pair, "=")
    IN  IF Contains(pair, "=") /\ Len(kv) = 2
        THEN [key |-> kv[1], val |-> kv[2]]
        ELSE [key |-> pair, val |-> Empty]

ParsePair(rawPair) ==
    LET pair == TrimSpace(rawPair)
        kv   == SplitN2(pair, "=")
    IN  IF Contains(pair, "=") /\ Len(kv) = 2 /\ kv[1] # Empty
        THEN [key |-> kv[1], val |-> kv[2]]
        ELSE [key |-> pair, val |-> Empty]

RECURSIVE ParseLoop(_, _)
ParseLoop(pairs, values) ==
    IF pairs = Empty THEN values
    ELSE LET e == ParsePair(Head(pairs))
         IN  ParseLoop(Tail(pairs),
                       IF e.key # Empty THEN MapPut(values, e.key, e.val)
                                        ELSE values)

ParseStringList(ParamValue) ==
    ParseLoop(Split(TrimSpace(ParamValue), ","), EmptyMap)


-----------------------------------------------------------------------------
(* The ConfigMap struct and ConfigMap.Set *)

ObjName == <<"c","m">>

ObjNamespace == <<"n","s">>

NewStruct(sec, configmap_name, configmap_namespace, pname, ptype, pkey) ==
    [ ConfigMap  |-> sec,
      Name       |-> configmap_name,
      Namespace  |-> configmap_namespace,
      ParamName  |-> pname,
      ParamType  |-> ptype,
      ParamKey   |-> pkey,
      ParamValue |-> Empty,
      Data       |-> MakeMap(EmptyMap) ]

KeyExistsError(key, namespace, name) ==
    [msg |-> "Key already exists", key |-> key,
     namespace |-> namespace, name |-> name]

IrrelevantError == [msg |-> "Irrelevant ConfigMap"]

\* the existence test reads s.Data, the store writes s.ConfigMap.Data
Set(st, key, val) ==
    LET st1 == IF st.ConfigMap.Data = Nil
               THEN [st EXCEPT !.ConfigMap.Data = MakeMap(EmptyMap)] ELSE st
    IN  IF key \in DOMAIN MapOf(st1.Data)
        THEN [s |-> st1, err |-> KeyExistsError(key, st.Namespace, st.Name)]
        ELSE [s |-> [st1 EXCEPT !.ConfigMap.Data =
                                   MakeMap(MapPut(MapOf(@), key, val))],
              err |-> Nil]

\* the data mapping carried by the object under resolution
DataView == IF s # Nil THEN MapOf(s.ConfigMap.Data) ELSE MapOf(configmap.Data)

\* sec.Data and s.ConfigMap.Data are one Go map unless sec.Data is nil
Shared(cm, st) ==
    IF cm.Data = Nil THEN cm ELSE [cm EXCEPT !.Data = st.ConfigMap.Data]

-----------------------------------------------------------------------------
(* Input sets *)

SeqsUpTo(A, n) == UNION {[1..m -> A] : m \in 0..n}

ListChars == {"a", "b", "=", ",", " "}

\* "a=1, b=2, bare"
ExampleList1 == <<"a","=","1",","," ","b","=","2",","," ","b","a","r","e">>

\* "=x,y"
ExampleList2 == <<"=","x",",","y">>

\* "StringList=z,a=1"
ExampleList3 == <<"S","t","r","i","n","g","L","i","s","t","=","z",",","a","=","1">>

RawValues == SeqsUpTo(ListChars, MaxLen) \cup {ExampleList1, ExampleList2, ExampleList3}

KeyChars == {"/", "a", "_"}

\* "/a/b/"
ExampleKey1 == <<"/","a","/","b","/">>

\* "c"
ExampleKey2 == <<"c">>

SubPaths == SeqsUpTo(KeyChars, MaxKeyLen) \cup {ExampleKey1, ExampleKey2}

SetKeys == {<<"a">>, <<"b">>, TypeString}

SetVals == {Empty, <<"1">>, <<"2">>}

-----------------------------------------------------------------------------
(* ParseStringList and safeKeyName applied to arbitrary inputs *)

IdleBuild ==
    /\ configmap = [Annotations |-> EmptyMap, Data |-> Nil,
                    Name |-> ObjName, Namespace |-> ObjNamespace]
    /\ param_name = Empty /\ param_type = Empty /\ param_key = Empty
    /\ scanned = {} /\ pending = EmptyMap /\ ret = Nil /\ calls = << >>
    /\ data0 = Nil /\ annoKey = Empty /\ collided = FALSE

IdleSet == setKey = Empty /\ setVal = Empty /\ setErr = Nil /\ nSet = 0

InitParse ==
    /\ pc = "ParseStringList"
    /\ input \in RawValues
    /\ output = EmptyMap
    /\ s = Nil
    /\ IdleBuild /\ IdleSet

CallParseStringList ==
    /\ pc = "ParseStringList"
    /\ output' = ParseStringList(input)
    /\ pc' = "parsed"
    /\ UNCHANGED <<input, s, buildVars, setVars>>

NextParse == CallParseStringList

SpecParse == InitParse /\ [][NextParse]_vars

InitKey ==
    /\ pc = "safeKeyName"
    /\ input \in SubPaths
    /\ output = Empty
    /\ s = Nil
    /\ IdleBuild /\ IdleSet

CallSafeKeyName ==
    /\ pc = "safeKeyName"
    /\ output' = safeKeyName(input)
    /\ pc' = "sanitized"
    /\ UNCHANGED <<input, s, buildVars, setVars>>

NextKey == CallSafeKeyName

SpecKey == InitKey /\ [][NextKey]_vars

-----------------------------------------------------------------------------
(* A sequence of Set calls on one fresh ConfigMap struct *)

InitSet ==
    /\ pc = "Set"
    /\ \E d \in {Nil, MakeMap(EmptyMap)} :
          s = NewStruct([Annotations |-> EmptyMap, Data |-> d,
                         Name |-> ObjName, Namespace |-> ObjNamespace],
                        ObjName, ObjNamespace, <<"p">>, TypeString, Empty)
    /\ input = Empty /\ output = Empty
    /\ IdleBuild /\ IdleSet

CallSet ==
    /\ pc = "Set"
    /\ nSet < MaxSetCalls
    /\ \E key \in SetKeys, val \in SetVals :
          LET r == Set(s, key, val)
          IN  /\ s' = r.s
              /\ setErr' = r.err
              /\ setKey' = key
              /\ setVal' = val
    /\ nSet' = nSet + 1
    /\ UNCHANGED <<pc, input, output, buildVars>>

NextSet == CallSet

SpecSet == InitSet /\ [][NextSet]_vars

-----------------------------------------------------------------------------
(* FromKubernetesConfigMap and NewConfigMap *)

\* the annotation keys of package annotations, and one key it does not define
AWSParamName == "AWSParamName"

V1ParamName == "V1ParamName"

AWSParamType == "AWSParamType"

V1ParamType == "V1ParamType"

AWSParamKey == "AWSParamKey"

V1ParamKey == "V1ParamKey"

OtherAnnotation == "other"

AnnotationKeys == {AWSParamName, V1ParamName, AWSParamType, V1ParamType,
                   AWSParamKey, V1ParamKey, OtherAnnotation}

\* a type the dispatch does not recognise: "string"
TypeLower == <<"s","t","r","i","n","g">>

AnnotationValues(k) ==
    IF k \in {AWSParamName, V1ParamName} THEN {Empty, <<"p">>}
    ELSE IF k = AWSParamType
         THEN {Empty, TypeString, TypeSecureString, TypeStringList,
               TypeDirectory, TypeLower}
    ELSE IF k = V1ParamType THEN {Empty, TypeStringList, TypeDirectory}
    ELSE IF k \in {AWSParamKey, V1ParamKey} THEN {Empty, <<"k">>}
    ELSE {<<"x">>}

AnnotationMaps ==
    UNION { {a \in [K -> SeqsUpTo({"p", "k", "x"}, 1) \cup
                         {TypeString, TypeSecureString, TypeStringList,
                          TypeDirectory, TypeLower}] :
                \A k \in K : a[k] \in AnnotationValues(k)} :
            K \in {K \in SUBSET AnnotationKeys :
                      Cardinality(K) <= MaxAnnotations} }

\* what the object carries in Data before resolution
InitialData ==
    { MakeMap(EmptyMap),
      MakeMap([k \in {TypeStringList} |-> <<"o","l","d">>]),
      MakeMap([k \in {<<"a">>} |-> <<"o","l","d">>]) }

\* what the provider can answer
StoreValues ==
    {Empty, <<"v">>, ExampleList1, ExampleList2, ExampleList3}

PathA == <<"/","a","/">>

PathB == <<"a">>

StoreParams ==
    { EmptyMap,
      [k \in {ExampleKey1, ExampleKey2} |->
          IF k = ExampleKey1 THEN <<"v","1">> ELSE <<"v","2">>],
      [k \in {PathA, PathB} |-> IF k = PathA THEN <<"v","1">> ELSE <<"v","2">>],
      [k \in {TypeDirectory} |-> <<"v","1">>] }

StoreErrors == {[msg |-> "ParameterNotFound"], [msg |-> "AccessDeniedException"]}

\* one step of the switch in the loop over the annotations
ScanField(k, v, cur, aliases) == IF k \in aliases THEN v ELSE cur

\* variant that asks for both fields to be empty
IrrelevantBoth(pname, ptype) == pname = Empty /\ ptype = Empty

Irrelevant(pname, ptype) == pname = Empty \/ ptype = Empty

\* variant that defaults the key for every type
DefaultedKeyAnyType(ptype, pkey) ==
    IF pkey = Empty THEN DefaultKey ELSE pkey

DefaultedKey(ptype, pkey) ==
    IF ptype = TypeSecureString /\ pkey = Empty THEN DefaultKey ELSE pkey

Decrypt(st) == st.ParamKey # Empty

\* variant that swallows the error of the provider
FetchFailedSwallowed(st, err) == [s |-> st, err |-> Nil]

FetchFailed(st, err) == [s |-> Nil, err |-> err]

\* variant that stores the marker of a Directory in Data as well
DirectoryDoneWithMarker(st) ==
    Set([st EXCEPT !.ParamValue = TrueMarker], TypeDirectory, TrueMarker).s

DirectoryDone(st) == [st EXCEPT !.ParamValue = TrueMarker]

\* variant that stores the canonical entry before the value is known
CanonicalKeepFirst(st) ==
    IF st.ParamType \in DOMAIN MapOf(st.ConfigMap.Data)
    THEN st ELSE Set(st, st.ParamType, st.ParamValue).s

Canonical(st) == Set(st, st.ParamType, st.ParamValue).s

Call(fn, st, err, value, params) ==
    [fn |-> fn, name |-> st.ParamName, decrypt |-> Decrypt(st),
     err |-> err, value |-> value, params |-> params]

Init ==
    /\ pc = "scan"
    /\ \E a \in AnnotationMaps :
          \/ \E d \in InitialData :
                configmap = [Annotations |-> a, Data |-> d,
                             Name |-> ObjName, Namespace |-> ObjNamespace]
          \/ configmap = [Annotations |-> a, Data |-> Nil,
                          Name |-> ObjName, Namespace |-> ObjNamespace]
    /\ data0 = configmap.Data
    /\ param_name = Empty /\ param_type = Empty /\ param_key = Empty
    /\ scanned = {} /\ pending = EmptyMap /\ ret = Nil /\ calls = << >>
    /\ annoKey = Empty /\ collided = FALSE
    /\ s = Nil
    /\ input = Empty /\ output = Empty
    /\ IdleSet

\* lines 116-125: one iteration of the range over the annotations
ScanAnnotation ==
    /\ pc = "scan"
    /\ \E k \in (DOMAIN configmap.Annotations) \ scanned :
          LET v == configmap.Annotations[k]
          IN  /\ param_name' = ScanField(k, v, param_name, {AWSParamName, V1ParamName})
              /\ param_type' = ScanField(k, v, param_type, {AWSParamType, V1ParamType})
              /\ param_key'  = ScanField(k, v, param_key, {AWSParamKey, V1ParamKey})
              /\ scanned' = scanned \cup {k}
    /\ UNCHANGED <<pc, configmap, s, pending, ret, calls, data0, annoKey,
                   collided, setVars, pureVars>>

\* lines 127-129
ReturnIrrelevant ==
    /\ pc = "scan"
    /\ scanned = DOMAIN configmap.Annotations
    /\ Irrelevant(param_name, param_type)
    /\ ret' = [s |-> Nil, err |-> IrrelevantError]
    /\ pc' = "done"
    /\ UNCHANGED <<configmap, param_name, param_type, param_key, scanned, s,
                   pending, calls, data0, annoKey, collided, setVars, pureVars>>

\* lines 131-145 and 51-67
Construct ==
    /\ pc = "scan"
    /\ scanned = DOMAIN configmap.Annotations
    /\ ~Irrelevant(param_name, param_type)
    /\ annoKey' = param_key
    /\ param_key' = DefaultedKey(param_type, param_key)
    /\ s' = NewStruct(configmap, configmap.Name, configmap.Namespace,
                      param_name, param_type, param_key')
    /\ pc' = "dispatch"
    /\ UNCHANGED <<configmap, param_name, param_type, scanned, pending, ret,
                   calls, data0, collided, setVars, pureVars>>

\* lines 69-74
FetchScalar ==
    /\ pc = "dispatch"
    /\ s.ParamType \in {TypeString, TypeSecureString}
    /\ \/ \E value \in StoreValues :
             /\ calls' = Append(calls, Call("GetParameterValue", s, Nil, value, EmptyMap))
             /\ s' = [s EXCEPT !.ParamValue = value]
             /\ pc' = "canonical"
             /\ ret' = ret
       \/ \E err \in StoreErrors :
             /\ calls' = Append(calls, Call("GetParameterValue", s, err, Empty, EmptyMap))
             /\ ret' = FetchFailed(s, err)
             /\ pc' = "done"
             /\ s' = s
    /\ UNCHANGED <<configmap, param_name, param_type, param_key, scanned,
                   pending, data0, annoKey, collided, setVars, pureVars>>

\* lines 75-82
FetchList ==
    /\ pc = "dispatch"
    /\ s.ParamType = TypeStringList
    /\ \/ \E value \in StoreValues :
             /\ calls' = Append(calls, Call("GetParameterValue", s, Nil, value, EmptyMap))
             /\ s' = [s EXCEPT !.ParamValue = value]
             /\ pending' = ParseStringList(value)
             /\ pc' = IF pending' = EmptyMap THEN "canonical" ELSE "rangeList"
             /\ ret' = ret
       \/ \E err \in StoreErrors :
             /\ calls' = Append(calls, Call("GetParameterValue", s, err, Empty, EmptyMap))
             /\ ret' = FetchFailed(s, err)
             /\ pc' = "done"
             /\ UNCHANGED <<s, pending>>
    /\ UNCHANGED <<configmap, param_name, param_type, param_key, scanned,
                   data0, annoKey, collided, setVars, pureVars>>

\* lines 83-85: one iteration of the range over the parsed values
SetListEntry ==
    /\ pc = "rangeList"
    /\ \E k \in DOMAIN pending :
          /\ s' = Set(s, k, pending[k]).s
          /\ collided' = (collided \/ k \in DOMAIN DataView)
          /\ pending' = MapRemove(pending, k)
    /\ configmap' = Shared(configmap, s')
    /\ pc' = IF pending' = EmptyMap THEN "canonical" ELSE "rangeList"
    /\ UNCHANGED <<param_name, param_type, param_key, scanned, ret, calls,
                   data0, annoKey, setVars, pureVars>>

\* lines 86-91
FetchDirectory ==
    /\ pc = "dispatch"
    /\ s.ParamType = TypeDirectory
    /\ \/ \E all_params \in StoreParams :
             /\ calls' = Append(calls, Call("GetParameterDataByPath", s, Nil, Empty, all_params))
             /\ pending' = all_params
             /\ pc' = IF pending' = EmptyMap THEN "returnDir" ELSE "rangeDir"
             /\ ret' = ret
       \/ \E err \in StoreErrors :
             /\ calls' = Append(calls, Call("GetParameterDataByPath", s, err, Empty, EmptyMap))
             /\ ret' = FetchFailed(s, err)
             /\ pc' = "done"
             /\ pending' = pending
    /\ UNCHANGED <<configmap, param_name, param_type, param_key, scanned, s,
                   data0, annoKey, collided, setVars, pureVars>>

\* lines 93-95: one iteration of the range over the parameters of the path
SetDirectoryEntry ==
    /\ pc = "rangeDir"
    /\ \E k \in DOMAIN pending :
          /\ s' = Set(s, safeKeyName(k), pending[k]).s
          /\ collided' = (collided \/ safeKeyName(k) \in DOMAIN DataView)
          /\ pending' = MapRemove(pending, k)
    /\ configmap' = Shared(configmap, s')
    /\ pc' = IF pending' = EmptyMap THEN "returnDir" ELSE "rangeDir"
    /\ UNCHANGED <<param_name, param_type, param_key, scanned, ret, calls,
                   data0, annoKey, setVars, pureVars>>

\* lines 96-97
ReturnDirectory ==
    /\ pc = "returnDir"
    /\ s' = DirectoryDone(s)
    /\ configmap' = Shared(configmap, s')
    /\ ret' = [s |-> s', err |-> Nil]
    /\ pc' = "done"
    /\ UNCHANGED <<param_name, param_type, param_key, scanned, pending, calls,
                   data0, annoKey, collided, setVars, pureVars>>

\* lines 105-107, reached after a scalar fetch, after the range over the
\* parsed values, or at once when the type is none of the four
SetCanonical ==
    /\ \/ pc = "canonical"
       \/ /\ pc = "dispatch"
          /\ s.ParamType \notin {TypeString, TypeSecureString, TypeStringList,
                                 TypeDirectory}
    /\ s' = Canonical(s)
    /\ collided' = (collided \/ s.ParamType \in DOMAIN DataView)
    /\ configmap' = Shared(configmap, s')
    /\ ret' = [s |-> s', err |-> Nil]
    /\ pc' = "done"
    /\ UNCHANGED <<param_name, param_type, param_key, scanned, pending, calls,
                   data0, annoKey, setVars, pureVars>>

Next ==
    \/ ScanAnnotation
    \/ ReturnIrrelevant
    \/ Construct
    \/ FetchScalar
    \/ FetchList
    \/ SetListEntry
    \/ FetchDirectory
    \/ SetDirectoryEntry
    \/ ReturnDirectory
    \/ SetCanonical

Spec == Init /\ [][Next]_vars

-----------------------------------------------------------------------------
(* Claims about Set alone *)

SetErrIsKeyCollision(e) == e # Nil /\ e.msg = "Key already exists"

\* C1: in any sequence of Set calls starting from an empty data mapping, a
\* Set whose key an earlier Set inserted returns a KeyCollision error and
\* leaves the data unchanged, and a Set whose key is not present inserts the
\* entry and returns no error.
C1_SetRejectsExistingKey ==
    [][ (nSet' = nSet + 1) =>
          /\ (setKey' \in DOMAIN DataView) =>
                (SetErrIsKeyCollision(setErr') /\ DataView' = DataView)
          /\ (setKey' \notin DOMAIN DataView) =>
                (setErr' = Nil /\ DataView' = MapPut(DataView, setKey', setVal')) ]_vars

-----------------------------------------------------------------------------
(* Claims about ParseStringList alone *)

MinOf(S) == CHOOSE x \in S : \A y \in S : x <= y

MaxOf(S) == CHOOSE x \in S : \A y \in S : y <= x

\* str without its leading and trailing white space
Trimmed(str) ==
    LET ns == {i \in 1..Len(str) : ~IsSpace(str[i])}
    IN  IF ns = {} THEN Empty ELSE SubSeq(str, MinOf(ns), MaxOf(ns))

\* the comma-separated segments of str, each with the position it starts at
Segments(str) ==
    LET cuts == {0, Len(str) + 1} \cup {i \in 1..Len(str) : str[i] = ","}
    IN  { [at |-> lo, text |-> Trimmed(SubSeq(str, lo + 1, hi - 1))] :
            <<lo, hi>> \in { c \in cuts \X cuts :
                               /\ c[1] < c[2]
                               /\ ~ \E m \in cuts : c[1] < m /\ m < c[2] } }

\* the entry one trimmed segment stands for
SegmentEntry(seg) ==
    LET eqs == {i \in 1..Len(seg.text) : seg.text[i] = "="}
    IN  IF eqs # {} /\ MinOf(eqs) > 1
        THEN [at |-> seg.at, key |-> SubSeq(seg.text, 1, MinOf(eqs) - 1),
              val |-> SubSeq(seg.text, MinOf(eqs) + 1, Len(seg.text))]
        ELSE [at |-> seg.at, key |-> seg.text, val |-> Empty]

\* the mapping of the entries of raw; of two segments with one key the later
\* one gives the value
ExpectedList(raw) ==
    LET entries == {SegmentEntry(seg) : seg \in Segments(Trimmed(raw))}
        keys    == {e.key : e \in entries} \ {Empty}
        last(k) == CHOOSE e \in entries :
                      e.key = k /\ \A f \in entries : f.key = k => f.at <= e.at
    IN  [k \in keys |-> last(k).val]

ExpectedExample1 ==
    [k \in {<<"a">>, <<"b">>, <<"b","a","r","e">>} |->
        IF k = <<"a">> THEN <<"1">> ELSE IF k = <<"b">> THEN <<"2">> ELSE Empty]

ExpectedExample2 == [k \in {<<"=","x">>, <<"y">>} |-> Empty]

\* C7: ParseStringList returns exactly the mapping obtained by trimming the
\* raw value, splitting it on ',', trimming each segment and reading each
\* segment as key=value when the text before its first '=' is non-empty and
\* as a bare key with an empty value otherwise, segments with an empty key
\* contributing nothing.
C7_ParseStringList ==
    pc = "parsed" =>
        /\ output = ExpectedList(input)
        /\ input = ExampleList1 => output = ExpectedExample1
        /\ input = ExampleList2 => output = ExpectedExample2

C7_Witness ==
    /\ pc = "parsed"
    /\ input = <<"=","a",",","b">>
    /\ DOMAIN output = {<<"=","a">>, <<"b">>}

-----------------------------------------------------------------------------
(* Claims about safeKeyName alone *)

\* the key with its trailing slashes and one leading slash removed and every
\* other slash turned into an underscore
ExpectedKey(key) ==
    LET ns    == {i \in 1..Len(key) : key[i] # "/"}
        hi    == IF ns = {} THEN 0 ELSE MaxOf(ns)
        lo    == IF hi >= 1 /\ key[1] = "/" THEN 2 ELSE 1
    IN  [i \in 1..(hi - lo + 1) |->
            IF key[lo + i - 1] = "/" THEN "_" ELSE key[lo + i - 1]]

\* C10: safeKeyName removes all trailing '/', then one leading '/', then
\* replaces every remaining '/' by '_'; the result contains no '/'.
C10_SafeKeyName ==
    pc = "sanitized" =>
        /\ output = ExpectedKey(input)
        /\ \A i \in 1..Len(output) : output[i] # "/"
        /\ input = ExampleKey1 => output = <<"a","_","b">>
        /\ input = <<"/","/","a">> => output = <<"_","a">>
        /\ input = ExampleKey2 => output = <<"c">>

C10_Witness ==
    /\ pc = "sanitized"
    /\ input = <<"/","/","a","/","/">>
    /\ output = <<"_","a">>

-----------------------------------------------------------------------------
(* Claims about one resolution *)

IsKeyCollision(e) == e # Nil /\ e.msg = "Key already exists"

\* C2: during one resolution the data mapping only grows: a key present at
\* one step is present with the same value at every later step.
C2_DataOnlyGrows ==
    [][ \A k \in DOMAIN DataView :
           k \in DOMAIN DataView' /\ DataView'[k] = DataView[k] ]_vars

\* C3: the resolution returns a KeyCollision error whenever it attempted to
\* write a key that was already in the data mapping.
C3_CollisionIsReturned ==
    (pc = "done" /\ collided) => IsKeyCollision(ret.err)

\* C4: when the scanned name or type is empty, the resolution returns the
\* IrrelevantObject error, calls the provider not at all and leaves the data
\* mapping of the object as it was.
C4_IrrelevantObject ==
    (pc = "done" /\ (param_name = Empty \/ param_type = Empty)) =>
        /\ ret = [s |-> Nil, err |-> IrrelevantError]
        /\ calls = << >>
        /\ s = Nil
        /\ configmap.Data = data0

C4_Witness ==
    /\ pc = "done"
    /\ param_name # Empty
    /\ param_type = Empty
    /\ AWSParamType \in scanned
    /\ data0 # Nil
    /\ ret.err = IrrelevantError

\* the values the annotations give for the key: that of either alias
AnnotatedKeys ==
    LET present == {AWSParamKey, V1ParamKey} \cap DOMAIN configmap.Annotations
    IN  IF present = {} THEN {Empty}
        ELSE {configmap.Annotations[k] : k \in present}

\* C5: the resolved ParamKey is the annotated key, except that it is
\* "alias/aws/ssm" exactly when the type is SecureString and the annotated
\* key is empty; every fetch carries decrypt = (ParamKey # ""), so without a
\* key annotation a SecureString is fetched with decrypt = true and every
\* other type with decrypt = false.
C5_KeyDefaultAndDecrypt ==
    s # Nil =>
        /\ annoKey \in AnnotatedKeys
        /\ s.ParamKey = (IF s.ParamType = TypeSecureString /\ annoKey = Empty
                         THEN DefaultKey ELSE annoKey)
        /\ \A i \in DOMAIN calls :
              /\ calls[i].decrypt = (s.ParamKey # Empty)
              /\ annoKey = Empty =>
                    (calls[i].decrypt = (s.ParamType = TypeSecureString))

C5_Witness ==
    /\ pc = "done"
    /\ s # Nil
    /\ s.ParamType = TypeSecureString
    /\ annoKey = Empty
    /\ s.ParamKey = DefaultKey
    /\ Len(calls) = 1
    /\ calls[1].decrypt

\* C6: when a fetch of the provider fails, the resolution returns that error
\* and no struct, and nothing has been written to the data mapping.
C6_FetchErrorPropagates ==
    \A i \in DOMAIN calls :
        calls[i].err # Nil =>
            /\ pc = "done"
            /\ ret = [s |-> Nil, err |-> calls[i].err]
            /\ DataView = MapOf(data0)
            /\ configmap.Data = data0
            /\ s.ConfigMap.Data = data0

C6_Witness ==
    /\ pc = "done"
    /\ Len(calls) = 1
    /\ calls[1].fn = "GetParameterDataByPath"
    /\ calls[1].err = [msg |-> "AccessDeniedException"]
    /\ ret.err = [msg |-> "AccessDeniedException"]
    /\ MapOf(data0) # EmptyMap

SanitizedKeys(params) == {safeKeyName(p) : p \in DOMAIN params}

\* the parameters of a path under their sanitized keys
Sanitized(params) ==
    [k \in SanitizedKeys(params) |->
        params[CHOOSE p \in DOMAIN params : safeKeyName(p) = k]]

DirectoryExample ==
    [k \in {ExampleKey1, ExampleKey2} |->
        IF k = ExampleKey1 THEN <<"v","1">> ELSE <<"v","2">>]

DirectoryExampleData ==
    [k \in {<<"a","_","b">>, <<"c">>} |->
        IF k = <<"c">> THEN <<"v","2">> ELSE <<"v","1">>]

RecognisedTypes ==
    {TypeString, TypeSecureString, TypeStringList, TypeDirectory}

=============================================================================
